---- MODULE Spec2Model ----
\* Event-coordination core of the terminal system monitor (src/src/main.rs):
\* the Input Source thread, the Sampler Source thread and the Event
\* Coordinator loop of main, joined by one mpsc channel.
EXTENDS Integers, Sequences, FiniteSets, TLC

\* ---------------------------------------------------------------- bounds
MaxInputs == 2      \* raw input signals read by the Input Source
MaxSamples == 2     \* acquisitions made by the Sampler Source
MaxTicks == 4       \* acquisitions made in a session without input

\* ------------------------------------------------------ program constants
FirstRunSleep == 250                 \* main.rs:134, Duration::from_millis(250)
MinRate == 250                       \* main.rs:60

\* ------------------------------------------------------- wide integers
\* The refresh interval is a u128 and is narrowed to u64 (main.rs:58, 83,
\* 138). Both are kept as sequences of 16-bit limbs, most significant first:
\* eight limbs for a u128, four for a u64.
LimbMax == 256 * 256 - 1
U128(n) == <<0, 0, 0, 0, 0, 0, 0, n>>          \* a small n as u128
U64(n) == <<0, 0, 0, n>>                       \* a small n as u64
U64Max == <<LimbMax, LimbMax, LimbMax, LimbMax>>        \* std::u64::MAX
U128Max == <<LimbMax, LimbMax, LimbMax, LimbMax,
             LimbMax, LimbMax, LimbMax, LimbMax>>
\* u128::from(x)
U128From(u) == <<0, 0, 0, 0>> \o u
\* x as u64: the low 64 bits
AsU64(r) == SubSeq(r, 5, 8)
\* a < b, for two values of the same width
RECURSIVE Less(_, _)
Less(a, b) ==
    IF a = <<>> THEN FALSE
    ELSE IF a[1] # b[1] THEN a[1] < b[1]
    ELSE Less(Tail(a), Tail(b))
\* Duration::from_millis(n) for a small n
from_millis(n) == U64(n)

\* accepted refresh intervals explored by Spec
Rates == {U128(250), U128(1000)}
\* values of the RATE argument explored by SpecStartup:
\* 0, 249, 250, 2^64 - 1, 2^64, 2^64 + 250, 2^128 - 1
RateArgs == {U128(0), U128(249), U128(250), U128From(U64Max),
             <<0, 0, 0, 1, 0, 0, 0, 0>>, <<0, 0, 0, 1, 0, 0, 0, 250>>,
             U128Max}

\* --------------------------------------------------------------- data
\* Process records are identified by pid; CpuOf gives the sampled cpu usage.
\* Two records tie on cpu so that stability of the sort is observable.
Pids == {1, 2, 3}
CpuOf(p) == CASE p = 1 -> 5 [] p = 2 -> 9 [] OTHER -> 5
\* The order in which the collector reports the processes at its n-th sample.
ReportedProcs(n) == IF n % 2 = 1 THEN <<1, 2, 3>> ELSE <<3, 2, 1>>

\* data_collection::Data::default(): no sample yet, empty process list.
DefaultData == [id |-> 0, procs |-> <<>>]

\* enum Event<I, J> { KeyInput(I), MouseInput(J), Update(Box<Data>) }
KeyInput(k) == [kind |-> "KeyInput", arg |-> k, data |-> DefaultData]
MouseInput(m) == [kind |-> "MouseInput", arg |-> m, data |-> DefaultData]
Update(d) == [kind |-> "Update", arg |-> "none", data |-> d]

\* Raw signals delivered by the input driver (crossterm InputEvent).
KeySignals == {"CtrlC", "q", "c", "p"}
MouseSignals == {"WheelDown"}
Signals == [type : {"Keyboard"}, v : KeySignals]
             \cup [type : {"Mouse"}, v : MouseSignals]
             \cup [type : {"Other"}, v : {"Unsupported"}]

VARIABLES
    update_rate_in_milliseconds, \* the parsed RATE argument, a u128 (main.rs:58)
    chan,          \* events in flight on the mpsc channel, oldest first
    rx_open,       \* the receiver rx is alive (main has not returned)
    input_pc,      \* Input Source: "unspawned", "enable", "read", "returned"
    sampler_pc,    \* Sampler Source: "unspawned", "run", "sleep", "panicked"
    first_run,     \* main.rs:126
    data_state,    \* data_state.data of the sampler
    samples,       \* acquisitions made so far
    sleep_ms,      \* duration of the sampler's current or last sleep (u64 ms)
    main_pc,       \* main: "start", "invalid_arg", "recv", "draw", "exit",
                   \* "return_ok", "return_err", "done_ok", "done_err"
    app,           \* app::App fields used by the loop
    canvas_data,   \* canvas::CanvasData
    mouse_mode,    \* terminal mouse mode enabled
    \* history variables
    raw_signals,   \* signals read by the Input Source, in order
    sent,          \* events successfully enqueued, in order
    handled,       \* events dequeued by the coordinator, in order
    emitted,       \* Update events the sampler has enqueued
    gap,           \* sleep between the last two Updates enqueued (u64 ms)
    last_tick,     \* outcome of the last turn of the sampler loop
    rebuilt,       \* canvas_data fields assigned in the current iteration
    iter_kind,     \* what the current iteration received
    iter_renders,  \* renders invoked in the current iteration
    render_result  \* outcome of the last canvas::draw_data: "none", "ok", "err"

vars == <<update_rate_in_milliseconds, chan, rx_open, input_pc, sampler_pc,
          first_run, data_state, samples, sleep_ms, main_pc, app,
          canvas_data, mouse_mode, raw_signals, sent, handled, emitted, gap,
          last_tick, rebuilt, iter_kind, iter_renders, render_result>>

inputVars == <<input_pc, raw_signals>>
samplerVars == <<sampler_pc, first_run, data_state, samples, sleep_ms,
                 emitted, gap, last_tick>>
mainVars == <<main_pc, app, canvas_data, handled, rebuilt, iter_kind,
              iter_renders, render_result>>

\* ------------------------------------------------------------ channel
\* tx.send(e): the channel is unbounded, the event goes to the back.
Send(ch, e) == Append(ch, e)

\* Mutant of RecvIndex: input events overtake queued Update events.
RecvIndexInputFirst(ch) ==
    IF \E i \in 1..Len(ch) : ch[i].kind # "Update"
    THEN CHOOSE i \in 1..Len(ch) :
            /\ ch[i].kind # "Update"
            /\ \A j \in 1..(i - 1) : ch[j].kind = "Update"
    ELSE 1

\* Mutant of RecvIndex: the receive takes the newest event.
RecvIndexNewest(ch) == Len(ch)

\* rx.recv_timeout(..) on a non-empty channel yields the oldest event.
RecvIndex(ch) == 1

Remove(ch, i) == SubSeq(ch, 1, i - 1) \o SubSeq(ch, i + 1, Len(ch))

\* ------------------------------------------------------ process sorter
SortKey(p, column) == IF column = "CPU" THEN CpuOf(p) ELSE p

\* a goes strictly before b under (column, reverse)
Before(a, b, column, reverse) ==
    IF reverse THEN SortKey(a, column) > SortKey(b, column)
               ELSE SortKey(a, column) < SortKey(b, column)

RECURSIVE InsertStable(_, _, _, _)
InsertStable(s, p, column, reverse) ==
    IF s = <<>> THEN <<p>>
    ELSE IF Before(p, s[Len(s)], column, reverse)
         THEN Append(InsertStable(SubSeq(s, 1, Len(s) - 1), p, column, reverse),
                     s[Len(s)])
         ELSE Append(s, p)

RECURSIVE sort_processes(_, _, _)
sort_processes(list, column, reverse) ==
    IF list = <<>> THEN <<>>
    ELSE InsertStable(sort_processes(SubSeq(list, 1, Len(list) - 1), column, reverse),
                      list[Len(list)], column, reverse)

\* ------------------------------------------------- display transformer
CanvasFields == {"network_data_rx", "network_data_tx", "rx_display",
                 "tx_display", "disk_data", "temp_sensor_data",
                 "process_data", "mem_data", "swap_data", "cpu_data"}

\* convert_data::update_*: each buffer is computed from app.data alone; the
\* process table additionally shows the list in its current order.
Convert(f, data) ==
    [src |-> data.id,
     rows |-> IF f = "process_data" THEN data.procs ELSE <<>>]

\* CanvasData::default()
DefaultCanvas == [f \in CanvasFields |-> [src |-> 0, rows |-> <<>>]]

\* The statements canvas_data.f = update_f(&app.data) for f in fields.
Assign(cd, fields, data) ==
    [f \in CanvasFields |-> IF f \in fields THEN Convert(f, data) ELSE cd[f]]

\* Mutant of UpdateAssigns: the memory series is not reassigned.
UpdateAssignsNoMem == CanvasFields \ {"mem_data"}

\* main.rs:190-200, fields assigned on Event::Update
UpdateAssigns == CanvasFields

\* Mutant of ResortAssigns: every field is reassigned on a re-sort.
ResortAssignsAll == CanvasFields

\* main.rs:162, field assigned when app.to_be_resorted
ResortAssigns == {"process_data"}

\* ------------------------------------------------------------ app::App
InitApp == [data |-> DefaultData,
            process_sorting_type |-> "CPU",
            process_sorting_reverse |-> TRUE,
            to_be_resorted |-> FALSE,
            should_quit |-> FALSE,
            position |-> 0]

on_key(a, c) ==
    CASE c = "q" -> [a EXCEPT !.should_quit = TRUE]
      [] c = "c" -> IF a.process_sorting_type = "CPU"
                    THEN [a EXCEPT !.process_sorting_reverse = ~@,
                                   !.to_be_resorted = TRUE]
                    ELSE [a EXCEPT !.process_sorting_type = "CPU",
                                   !.process_sorting_reverse = TRUE,
                                   !.to_be_resorted = TRUE]
      [] c = "p" -> IF a.process_sorting_type = "PID"
                    THEN [a EXCEPT !.process_sorting_reverse = ~@,
                                   !.to_be_resorted = TRUE]
                    ELSE [a EXCEPT !.process_sorting_type = "PID",
                                   !.process_sorting_reverse = FALSE,
                                   !.to_be_resorted = TRUE]
      [] OTHER -> a

increment_position_count(a) == [a EXCEPT !.position = @ + 1]
decrement_position_count(a) == [a EXCEPT !.position = @ - 1]
on_up(a) == decrement_position_count(a)
on_down(a) == increment_position_count(a)
\* widget selection is outside the modelled state
on_left(a) == a
on_right(a) == a

QuitKeys == {"CtrlC", "Esc"}

\* Mutant of BreakOnKey: no key leaves the loop directly.
BreakOnKeyNever(k) == FALSE

\* main.rs:151, KeyEvent::Ctrl('c') | KeyEvent::Esc => break
BreakOnKey(k) == k \in QuitKeys

\* main.rs:150-158, the arms other than the break
KeyDispatch(a, k) ==
    CASE k \in {"h", "Left"} -> on_left(a)
      [] k \in {"l", "Right"} -> on_right(a)
      [] k \in {"k", "Up"} -> on_up(a)
      [] k \in {"j", "Down"} -> on_down(a)
      [] k \in {"q", "c", "p", "x"} -> on_key(a, k)
      [] OTHER -> a

\* Mutant of Resort: the flag is cleared but the list is left as it was.
ResortFlagOnly(a) == [a EXCEPT !.to_be_resorted = FALSE]

\* main.rs:161 and 163
Resort(a) ==
    [a EXCEPT !.data.procs = sort_processes(a.data.procs,
                                 a.process_sorting_type,
                                 a.process_sorting_reverse),
              !.to_be_resorted = FALSE]

\* Mutant of StoreUpdate: the new snapshot is stored but not re-sorted.
StoreUpdateUnsorted(a, d) == [a EXCEPT !.data = d]

\* main.rs:186-187
StoreUpdate(a, d) ==
    [a EXCEPT !.data = [d EXCEPT !.procs = sort_processes(d.procs,
                                     a.process_sorting_type,
                                     a.process_sorting_reverse)]]

\* Mutant of QuitAfterEvent: the quit flag is not looked at.
QuitAfterEventNever(a) == FALSE

\* main.rs:205-207
QuitAfterEvent(a) == a.should_quit

\* ------------------------------------------------------------- sampler
\* Mutant of SleepFor: the first-run fast path is missing.
SleepForAlwaysRate(first, rate) == AsU64(rate)

\* Mutant of SleepFor: the sampler never leaves its first-run branch.
SleepForAlwaysFirst(first, rate) == from_millis(FirstRunSleep)

\* main.rs:132-139, the duration slept after an Update
SleepFor(first, rate) ==
    IF first THEN from_millis(FirstRunSleep) ELSE AsU64(rate)

\* ------------------------------------------------------------- startup
\* Mutant of RateTooLow: the lower bound is not checked.
RateTooLowNever(r) == FALSE

\* main.rs:60
RateTooLow(r) == Less(r, U128(MinRate))

\* Mutant of RateTooHigh: the upper bound is not checked.
RateTooHighNever(r) == FALSE

\* main.rs:65
RateTooHigh(r) == Less(U128From(U64Max), r)

\* ---------------------------------------------------------------- Init
Init ==
    /\ update_rate_in_milliseconds \in Rates
    /\ chan = <<>>
    /\ rx_open = TRUE
    /\ input_pc = "enable"
    /\ sampler_pc = "run"
    /\ first_run = TRUE
    /\ data_state = DefaultData
    /\ samples = 0
    /\ sleep_ms = from_millis(0)
    /\ main_pc = "recv"
    /\ app = InitApp
    /\ canvas_data = DefaultCanvas
    /\ mouse_mode = FALSE
    /\ raw_signals = <<>>
    /\ sent = <<>>
    /\ handled = <<>>
    /\ emitted = 0
    /\ gap = from_millis(0)
    /\ last_tick = [acquired |-> TRUE, emitted |-> FALSE]
    /\ rebuilt = {}
    /\ iter_kind = "none"
    /\ iter_renders = 0
    /\ render_result = "none"

\* ------------------------------------------------------- Input Source
\* main.rs:98-99
InputEnable ==
    /\ input_pc = "enable"
    /\ input_pc' = "read"
    /\ mouse_mode' = TRUE
    /\ UNCHANGED <<update_rate_in_milliseconds, chan, rx_open,
                   raw_signals, sent, samplerVars, mainVars>>

\* Mutant of InputEvents: mouse signals are dropped.
InputEventsKeysOnly(sig) ==
    IF sig.type = "Keyboard" THEN <<KeyInput(sig.v)>> ELSE <<>>

\* main.rs:102-114, the events one raw signal is turned into
InputEvents(sig) ==
    CASE sig.type = "Keyboard" -> <<KeyInput(sig.v)>>
      [] sig.type = "Mouse" -> <<MouseInput(sig.v)>>
      [] OTHER -> <<>>

\* main.rs:101-115, one turn of the reader loop on a signal out of S
InputReadFrom(S) ==
    /\ input_pc = "read"
    /\ Len(raw_signals) < MaxInputs
    /\ \E sig \in S :
        /\ raw_signals' = Append(raw_signals, sig)
        /\ IF InputEvents(sig) = <<>>
           THEN UNCHANGED <<chan, sent, input_pc>>
           ELSE IF rx_open
                THEN /\ chan' = Send(chan, InputEvents(sig)[1])
                     /\ sent' = Append(sent, InputEvents(sig)[1])
                     /\ UNCHANGED input_pc
                ELSE /\ input_pc' = "returned"
                     /\ UNCHANGED <<chan, sent>>
    /\ UNCHANGED <<update_rate_in_milliseconds, rx_open, mouse_mode,
                   samplerVars, mainVars>>

InputRead == InputReadFrom(Signals)

\* ------------------------------------------------------ Sampler Source
\* data_state.update_data(): a successful acquisition replaces the data by
\* the snapshot of this tick, a failed one leaves it as it was.
Acquire(d, ok, n) == IF ok THEN [id |-> n, procs |-> ReportedProcs(n)] ELSE d

\* main.rs:130-139, one turn of the sampler loop up to its sleep
SamplerSampleUpTo(max) ==
    /\ sampler_pc = "run"
    /\ samples < max
    /\ \E ok \in BOOLEAN :
        /\ samples' = samples + 1
        /\ data_state' = Acquire(data_state, ok, samples + 1)
        /\ IF rx_open
           THEN /\ chan' = Send(chan, Update(data_state'))
                /\ sent' = Append(sent, Update(data_state'))
                /\ last_tick' = [acquired |-> ok, emitted |-> TRUE]
                /\ emitted' = emitted + 1
                /\ gap' = sleep_ms
                /\ sleep_ms' = SleepFor(first_run, update_rate_in_milliseconds)
                /\ UNCHANGED first_run
                /\ sampler_pc' = "sleep"
           ELSE /\ sampler_pc' = "panicked"
                /\ last_tick' = [acquired |-> ok, emitted |-> FALSE]
                /\ UNCHANGED <<chan, sent, emitted, gap, sleep_ms,
                               first_run>>
    /\ UNCHANGED <<update_rate_in_milliseconds, rx_open, mouse_mode,
                   inputVars, mainVars>>

SamplerSample == SamplerSampleUpTo(MaxSamples)

\* main.rs:134-135 and 138, thread::sleep returns after sleep_ms or more;
\* the first-run branch then clears first_run
SamplerWake ==
    /\ sampler_pc = "sleep"
    /\ sampler_pc' = "run"
    /\ first_run' = FALSE
    /\ UNCHANGED <<update_rate_in_milliseconds, chan, rx_open,
                   mouse_mode, sent, data_state, samples, sleep_ms,
                   emitted, gap, last_tick, inputVars, mainVars>>

\* --------------------------------------------------- Event Coordinator
Received == chan[RecvIndex(chan)]

\* Mutant of CanRecv: the receive only ever returns Update events.
CanRecvUpdatesOnly(k) ==
    /\ main_pc = "recv"
    /\ chan # <<>>
    /\ Received.kind = k
    /\ k = "Update"

\* main.rs:146-147, recv_timeout returns Ok(recv) with an event of kind k
CanRecv(k) ==
    /\ main_pc = "recv"
    /\ chan # <<>>
    /\ Received.kind = k

Dequeue ==
    /\ chan' = Remove(chan, RecvIndex(chan))
    /\ handled' = Append(handled, Received)
    /\ iter_renders' = 0

\* main.rs:205-208 then 210: leave the loop or go on to draw
AfterEvent(a) ==
    IF QuitAfterEvent(a)
    THEN main_pc' = "exit" /\ iter_kind' = "quit"
    ELSE main_pc' = "draw" /\ iter_kind' = "event"

\* main.rs:148-166
HandleKey ==
    /\ CanRecv("KeyInput")
    /\ Dequeue
    /\ IF BreakOnKey(Received.arg)
       THEN /\ main_pc' = "exit"
            /\ iter_kind' = "quit"
            /\ rebuilt' = {}
            /\ UNCHANGED <<app, canvas_data>>
       ELSE LET a1 == KeyDispatch(app, Received.arg)
                a2 == IF a1.to_be_resorted THEN Resort(a1) ELSE a1
                fs == IF a1.to_be_resorted THEN ResortAssigns ELSE {}
            IN /\ app' = a2
               /\ canvas_data' = Assign(canvas_data, fs, a2.data)
               /\ rebuilt' = fs
               /\ AfterEvent(a2)
    /\ UNCHANGED <<render_result, update_rate_in_milliseconds, rx_open, mouse_mode,
                   sent, inputVars, samplerVars>>

\* Mutant of MouseDispatch: the two wheel directions are exchanged.
MouseDispatchSwapped(a, m) ==
    CASE m = "WheelUp" -> increment_position_count(a)
      [] m = "WheelDown" -> decrement_position_count(a)
      [] OTHER -> a

\* main.rs:167-183
MouseDispatch(a, m) ==
    CASE m = "WheelUp" -> decrement_position_count(a)
      [] m = "WheelDown" -> increment_position_count(a)
      [] OTHER -> a

HandleMouse ==
    /\ CanRecv("MouseInput")
    /\ Dequeue
    /\ app' = MouseDispatch(app, Received.arg)
    /\ rebuilt' = {}
    /\ AfterEvent(app')
    /\ UNCHANGED <<render_result, update_rate_in_milliseconds, rx_open, mouse_mode,
                   sent, canvas_data, inputVars, samplerVars>>

\* main.rs:184-203
HandleUpdate ==
    /\ CanRecv("Update")
    /\ Dequeue
    /\ app' = StoreUpdate(app, Received.data)
    /\ canvas_data' = Assign(canvas_data, UpdateAssigns, app'.data)
    /\ rebuilt' = UpdateAssigns
    /\ AfterEvent(app')
    /\ UNCHANGED <<render_result, update_rate_in_milliseconds, rx_open, mouse_mode,
                   sent, inputVars, samplerVars>>

\* Mutant of Timeout: an empty tick goes round the loop without a render.
TimeoutSkipsDraw ==
    /\ main_pc = "recv"
    /\ chan = <<>>
    /\ main_pc' = "recv"
    /\ iter_kind' = "timeout"
    /\ iter_renders' = 0
    /\ rebuilt' = {}
    /\ UNCHANGED <<render_result, update_rate_in_milliseconds, chan, rx_open,
                   mouse_mode, sent, app, canvas_data, handled, inputVars,
                   samplerVars>>

\* main.rs:146, recv_timeout returns Err: nothing arrived within the tick
Timeout ==
    /\ main_pc = "recv"
    /\ chan = <<>>
    /\ main_pc' = "draw"
    /\ iter_kind' = "timeout"
    /\ iter_renders' = 0
    /\ rebuilt' = {}
    /\ UNCHANGED <<render_result, update_rate_in_milliseconds, chan, rx_open,
                   mouse_mode, sent, app, canvas_data, handled, inputVars,
                   samplerVars>>

\* Mutant of DrawOutcome: a render error is swallowed and the loop goes on.
DrawOutcomeSwallow(ok) == "recv"

\* main.rs:210-215: on Ok the loop goes round, on Err main is on its way
\* to return Err(err)
DrawOutcome(ok) == IF ok THEN "recv" ELSE "return_err"

\* main.rs:210-211, canvas::draw_data succeeds or fails; on failure
\* disable_mouse_mode is called, rx being still alive
Draw ==
    /\ main_pc = "draw"
    /\ iter_renders' = iter_renders + 1
    /\ \E ok \in BOOLEAN :
        /\ render_result' = IF ok THEN "ok" ELSE "err"
        /\ main_pc' = DrawOutcome(ok)
        /\ IF main_pc' = "return_err"
           THEN mouse_mode' = FALSE
           ELSE UNCHANGED mouse_mode
    /\ UNCHANGED <<update_rate_in_milliseconds, chan, rx_open, sent, app,
                   canvas_data, handled, rebuilt, iter_kind, inputVars,
                   samplerVars>>

\* main.rs:217, after the break: disable_mouse_mode, rx being still alive
Exit ==
    /\ main_pc = "exit"
    /\ main_pc' = "return_ok"
    /\ mouse_mode' = FALSE
    /\ UNCHANGED <<render_result, update_rate_in_milliseconds, chan, rx_open,
                   sent, app, canvas_data, handled, rebuilt, iter_kind,
                   iter_renders, inputVars, samplerVars>>

\* main.rs:213 and 219, main returns Err(err) or Ok(()): rx is dropped, and
\* the events still queued in the channel are destroyed with it
Return ==
    /\ main_pc \in {"return_ok", "return_err"}
    /\ main_pc' = IF main_pc = "return_ok" THEN "done_ok" ELSE "done_err"
    /\ rx_open' = FALSE
    /\ chan' = <<>>
    /\ UNCHANGED <<render_result, update_rate_in_milliseconds,
                   mouse_mode, sent, app, canvas_data, handled, rebuilt,
                   iter_kind, iter_renders, inputVars, samplerVars>>

Next ==
    \/ InputEnable
    \/ InputRead
    \/ SamplerSample
    \/ SamplerWake
    \/ HandleKey
    \/ HandleMouse
    \/ HandleUpdate
    \/ Timeout
    \/ Draw
    \/ Exit
    \/ Return

Spec == Init /\ [][Next]_vars

\* ------------------------------------------------------------ fairness
\* The three threads of main.rs:97, 127 and the main thread.
SamplerThread == SamplerSample \/ SamplerWake
Coordinator ==
    HandleKey \/ HandleMouse \/ HandleUpdate \/ Timeout \/ Draw \/ Exit \/ Return

\* main has returned: the process is ending and its threads with it
Returned == main_pc \in {"invalid_arg", "done_ok", "done_err"}

\* While main has not returned, each thread that can take a step eventually
\* takes one; whether the terminal delivers a further input signal is up to
\* the user, so only the input thread's own step (enable_mouse_mode) is
\* fair. Once main has returned the process ends, and no thread is owed a
\* further step.
SpecFair ==
    /\ Spec
    /\ WF_vars(~Returned /\ InputEnable)
    /\ WF_vars(~Returned /\ SamplerThread)
    /\ WF_vars(Coordinator)

\* ------------------------------------------------------------- startup
\* main before line 58 has run: nothing is created or spawned yet.
InitStartup ==
    /\ update_rate_in_milliseconds \in RateArgs
    /\ chan = <<>>
    /\ rx_open = FALSE
    /\ input_pc = "unspawned"
    /\ sampler_pc = "unspawned"
    /\ first_run = TRUE
    /\ data_state = DefaultData
    /\ samples = 0
    /\ sleep_ms = from_millis(0)
    /\ main_pc = "start"
    /\ app = InitApp
    /\ canvas_data = DefaultCanvas
    /\ mouse_mode = FALSE
    /\ raw_signals = <<>>
    /\ sent = <<>>
    /\ handled = <<>>
    /\ emitted = 0
    /\ gap = from_millis(0)
    /\ last_tick = [acquired |-> TRUE, emitted |-> FALSE]
    /\ rebuilt = {}
    /\ iter_kind = "none"
    /\ iter_renders = 0
    /\ render_result = "none"

\* main.rs:58-144: validate the interval, then create the channel and spawn
\* the two producer threads
Startup ==
    /\ main_pc = "start"
    /\ IF RateTooLow(update_rate_in_milliseconds)
          \/ RateTooHigh(update_rate_in_milliseconds)
       THEN /\ main_pc' = "invalid_arg"
            /\ UNCHANGED <<rx_open, input_pc, sampler_pc>>
       ELSE /\ main_pc' = "recv"
            /\ rx_open' = TRUE
            /\ input_pc' = "enable"
            /\ sampler_pc' = "run"
    /\ UNCHANGED <<update_rate_in_milliseconds, chan, first_run, data_state,
                   samples, sleep_ms, app, canvas_data, mouse_mode,
                   raw_signals, sent, handled, emitted, gap, last_tick,
                   rebuilt, iter_kind, iter_renders, render_result>>

NextStartup == Startup \/ Next

SpecStartup == InitStartup /\ [][NextStartup]_vars

\* ------------------------------------------------------ mouse session
\* main.rs:170-181: the mouse events the coordinator tells apart, wheel
\* presses, another button press, hold, release and any other.
MouseActions == {"WheelUp", "WheelDown", "PressLeft", "Hold", "Release",
                 "Unknown"}
MouseOnlySignals == [type : {"Mouse"}, v : MouseActions]

\* main.rs:101-115, a session in which the terminal reports mouse events only
InputReadMouse == InputReadFrom(MouseOnlySignals)

NextMouse ==
    \/ InputEnable
    \/ InputReadMouse
    \/ SamplerSample
    \/ SamplerWake
    \/ HandleMouse
    \/ HandleUpdate
    \/ Timeout
    \/ Draw
    \/ Return

SpecMouse == Init /\ [][NextMouse]_vars

\* ---------------------------------------------------- sampler session
\* main.rs:129-140, a session in which the terminal delivers no input, so
\* that the sampler can be followed over more turns of its loop
SamplerSampleLong == SamplerSampleUpTo(MaxTicks)

NextSampler ==
    \/ InputEnable
    \/ SamplerSampleLong
    \/ SamplerWake
    \/ HandleUpdate
    \/ Timeout
    \/ Draw
    \/ Return

SpecSampler == Init /\ [][NextSampler]_vars

\* ================================================================ claims
Last(s) == s[Len(s)]
IsPrefix(s, t) == Len(s) <= Len(t) /\ SubSeq(t, 1, Len(s)) = s
IsInput(e) == e.kind # "Update"
\* a key event that ends the loop: Ctrl-C, Esc or 'q'
IsQuitEvent(e) == e.kind = "KeyInput" /\ e.arg \in {"CtrlC", "Esc", "q"}
\* a key event after which the process list has to be re-sorted
IsSortEvent(e) == e.kind = "KeyInput" /\ KeyDispatch(InitApp, e.arg).to_be_resorted
QuitSent == \E i \in 1..Len(sent) : IsQuitEvent(sent[i])
QuitHandled == \E i \in 1..Len(handled) : IsQuitEvent(handled[i])

\* C1: the events the coordinator has handled are always a prefix of the
\* events enqueued, in the order of enqueueing, and while the receiver is
\* alive what is enqueued but not yet handled is exactly the channel's
\* content: no reordering, no priority of input events over Update events
\* or the reverse.
C1_ArrivalOrder ==
    /\ IsPrefix(handled, sent)
    /\ rx_open => sent = handled \o chan

\* C1 witness: an Update was handled before an input event that was enqueued
\* behind it, while a further event is waiting.
C1_Witness ==
    /\ Len(handled) >= 2
    /\ handled[1].kind = "Update"
    /\ IsInput(handled[2])
    /\ chan # <<>>

\* C2 as claimed (in its weakest reading, which leaves out a render already
\* under way at the send): once a quit event has been enqueued, the
\* coordinator starts no further iteration that goes on to render.
C2_NoRenderAfterQuitSent ==
    [][(QuitSent /\ main_pc = "recv") => main_pc' # "draw"]_vars

\* C2 amended: once the coordinator has dequeued 'q', Ctrl-C or Esc it is out
\* of the loop in that same iteration: that event is the last one handled and
\* the renderer has not been invoked since it was dequeued.
C2_QuitHandledExits ==
    QuitHandled =>
        /\ main_pc \in {"exit", "return_ok", "done_ok"}
        /\ IsQuitEvent(Last(handled))
        /\ \A i \in 1..(Len(handled) - 1) : ~IsQuitEvent(handled[i])
        /\ iter_renders = 0

\* C2 witness: 'q' was enqueued behind another event, that event was handled
\* first, and the coordinator has terminated on 'q'.
C2_Witness ==
    /\ main_pc = "done_ok"
    /\ Len(handled) >= 2
    /\ Last(handled) = KeyInput("q")

\* the event of the iteration made the loop end: a quit key, or the quit flag
LastCausedQuit ==
    /\ handled # <<>>
    /\ \/ Last(handled).kind = "KeyInput" /\ Last(handled).arg \in {"CtrlC", "Esc"}
       \/ app.should_quit

\* C3: an iteration that received an event either ends the loop without a
\* render (quit key or quit flag set; nothing is handled or rendered after
\* it), or invokes the renderer exactly once before the next receive.
C3_RenderOncePerEvent ==
    /\ LastCausedQuit =>
          /\ main_pc \in {"exit", "return_ok", "done_ok"}
          /\ iter_renders = 0
          /\ iter_kind = "quit"
    /\ (handled # <<>> /\ ~LastCausedQuit /\ iter_kind = "event") =>
          \/ main_pc = "draw" /\ iter_renders = 0
          \/ main_pc \in {"recv", "return_err", "done_err"} /\ iter_renders = 1
    /\ main_pc \in {"exit", "return_ok", "done_ok"} => LastCausedQuit

\* C3 witness: Ctrl-C ended the loop after an earlier event had been handled
\* and rendered.
C3_Witness ==
    /\ main_pc = "done_ok"
    /\ Len(handled) >= 2
    /\ Last(handled) = KeyInput("CtrlC")
    /\ ~app.should_quit

\* C4 as claimed: with an interval of 1000 ms the second Update (here with
\* both acquisitions successful) is separated from the first by at least
\* 1000 ms of sleep.
C4_SecondAfterInterval ==
    (update_rate_in_milliseconds = U128(1000) /\ emitted = 2 /\ data_state.id = 2)
        => ~Less(gap, from_millis(1000))

\* C4 amended: with an interval of 1000 ms no sleep precedes the first
\* Update, so that it is out within 250 ms of startup as far as the sampler
\* sleeps; the second Update follows the first after a sleep of 250 ms, and
\* from the third on each Update follows a sleep of the full 1000 ms.
C4_FirstRunFastPath ==
    update_rate_in_milliseconds = U128(1000) =>
        /\ emitted = 0 => sampler_pc # "sleep"
        /\ emitted = 1 => gap = from_millis(0)
        /\ emitted = 2 => gap = from_millis(250)
        /\ emitted >= 3 => gap = from_millis(1000)

\* C4 witness: the third and the fourth Update are out, each after a sleep
\* of 1000 ms, the second one having followed the first after 250 ms.
C4_Witness ==
    /\ update_rate_in_milliseconds = U128(1000)
    /\ emitted = 4
    /\ gap = from_millis(1000)
    /\ data_state.id = 4
    /\ \E i \in 1..Len(handled) : handled[i] = Update([id |-> 3, procs |-> ReportedProcs(3)])

\* C5: whenever the renderer is about to be invoked, every Display Buffer
\* comes from the snapshot held as application data, and the process table
\* shows that snapshot's process list in its current order.
C5_OneSnapshotAtRender ==
    main_pc = "draw" =>
        /\ \A f \in CanvasFields : canvas_data[f].src = app.data.id
        /\ canvas_data["process_data"].rows = app.data.procs

\* C5 witness: a render after a sort key that followed the second snapshot.
C5_Witness ==
    /\ main_pc = "draw"
    /\ app.data.id = 2
    /\ iter_kind = "event"
    /\ IsSortEvent(Last(handled))

\* C6 as claimed: every buffer field is recomputed on every Update and on
\* every sort-triggering input event.
C6_FullRebuildOnSortKey ==
    (iter_kind = "event" /\ handled # <<>>
        /\ (Last(handled).kind = "Update" \/ IsSortEvent(Last(handled))))
    => rebuilt = CanvasFields

\* C6 amended: an Update recomputes every buffer field; a sort-triggering
\* key recomputes the process table only, from the held snapshot in its new
\* order, and assigns no other field.
C6_RebuildScope ==
    (iter_kind = "event" /\ handled # <<>>) =>
        /\ Last(handled).kind = "Update" => rebuilt = CanvasFields
        /\ IsSortEvent(Last(handled)) =>
              /\ rebuilt = {"process_data"}
              /\ canvas_data["process_data"] = Convert("process_data", app.data)
        /\ \A f \in rebuilt : canvas_data[f] = Convert(f, app.data)

\* C6 witness: a sort key was handled after a snapshot had arrived.
C6_Witness ==
    /\ iter_kind = "event"
    /\ handled # <<>>
    /\ IsSortEvent(Last(handled))
    /\ app.data.id >= 1
    /\ rebuilt = {"process_data"}

\* C7: at every render the resort-pending flag is false, the process list
\* is in the order of the current (column, direction) and the process table
\* buffer shows that order: a sort change is never left for the next Update.
C7_ResortBeforeRender ==
    main_pc = "draw" =>
        /\ ~app.to_be_resorted
        /\ app.data.procs = sort_processes(app.data.procs,
                                app.process_sorting_type,
                                app.process_sorting_reverse)
        /\ canvas_data["process_data"].rows = app.data.procs

\* C7 witness: a render right after a key changed the sort column, with a
\* snapshot held.
C7_Witness ==
    /\ main_pc = "draw"
    /\ iter_kind = "event"
    /\ IsSortEvent(Last(handled))
    /\ app.process_sorting_type = "PID"
    /\ app.data.procs # <<>>

\* C8 as claimed: a turn of the sampler loop whose acquisition failed emits
\* no Update.
C8_FailedTickEmitsNothing ==
    ~last_tick.acquired => ~last_tick.emitted

\* C9 as claimed: after the coordinator has quit normally and closed the
\* consumer side, no producer ends in a panicked state because of it.
C9_NoProducerPanics ==
    main_pc = "done_ok" => sampler_pc # "panicked"

\* the events the Input Source has to emit for the signals s
RECURSIVE ExpectedEvents(_)
ExpectedEvents(s) ==
    IF s = <<>> THEN <<>>
    ELSE LET sig == Last(s)
             rest == ExpectedEvents(SubSeq(s, 1, Len(s) - 1))
         IN CASE sig.type = "Keyboard" ->
                    Append(rest, [kind |-> "KeyInput", arg |-> sig.v, data |-> DefaultData])
              [] sig.type = "Mouse" ->
                    Append(rest, [kind |-> "MouseInput", arg |-> sig.v, data |-> DefaultData])
              [] OTHER -> rest

\* C10: while the Input Source runs, the input events enqueued are exactly
\* one per keyboard or mouse signal read, in the order read; once a send has
\* failed on the closed channel the source has returned, and everything read
\* before the failing signal was enqueued, nothing after it.
C10_InputOnePerSignal ==
    LET inputSent == SelectSeq(sent, IsInput)
    IN IF input_pc = "returned"
       THEN /\ ~rx_open
            /\ raw_signals # <<>>
            /\ Last(raw_signals).type # "Other"
            /\ inputSent = ExpectedEvents(SubSeq(raw_signals, 1, Len(raw_signals) - 1))
       ELSE inputSent = ExpectedEvents(raw_signals)

\* C10 witness: the source enqueued an event, then returned on a failed send.
C10_Witness ==
    /\ input_pc = "returned"
    /\ SelectSeq(sent, IsInput) # <<>>

\* C11: once canvas::draw_data has returned an error the coordinator is
\* out of its loop, in the iteration of that one render, and its only
\* further step is the return with the error outcome, which drops the
\* receiver; the step that takes the error disables mouse mode, and
\* afterwards the coordinator handles no event, renders nothing and changes
\* neither the application nor a buffer.
C11_RenderErrorIsFatal ==
    /\ [](render_result = "err" =>
            /\ main_pc \in {"return_err", "done_err"}
            /\ main_pc = "done_err" => ~rx_open
            /\ iter_renders = 1)
    /\ [][(render_result # "err" /\ render_result' = "err") => ~mouse_mode']_vars
    /\ [][render_result = "err" =>
            /\ main_pc' \in {main_pc, "done_err"}
            /\ UNCHANGED <<app, canvas_data, handled, rebuilt, iter_kind,
                           iter_renders, render_result>>]_vars

\* C11 witness: the renderer failed after an event had been handled, and
\* main has returned with a further event enqueued that was never handled.
C11_Witness ==
    /\ render_result = "err"
    /\ main_pc = "done_err"
    /\ handled # <<>>
    /\ Len(sent) > Len(handled)

\* r is at most 2^64 - 1 (its upper four limbs are zero) and at least 250,
\* read off the digits of r
InRange(r) ==
    /\ \A i \in 1..4 : r[i] = 0
    /\ \/ \E i \in 5..7 : r[i] # 0
       \/ r[8] >= 250

\* C12: once startup has validated the interval r, it was accepted exactly
\* when 250 <= r <= 2^64 - 1; a rejected r ends in InvalidArg with no
\* channel, no producer thread, no mouse mode and no render; an accepted r
\* is unchanged by the narrowing to 64 bits, and the steady-state sleep of
\* the sampler is r.
C12_IntervalAcceptance ==
    main_pc # "start" =>
        /\ (main_pc # "invalid_arg") <=> InRange(update_rate_in_milliseconds)
        /\ main_pc = "invalid_arg" =>
              /\ ~rx_open
              /\ chan = <<>>
              /\ sent = <<>>
              /\ input_pc = "unspawned"
              /\ sampler_pc = "unspawned"
              /\ ~mouse_mode
              /\ iter_renders = 0
              /\ render_result = "none"
        /\ main_pc # "invalid_arg" =>
              /\ U128From(AsU64(update_rate_in_milliseconds))
                    = update_rate_in_milliseconds
              /\ (sampler_pc = "sleep" /\ emitted >= 2) =>
                    U128From(sleep_ms) = update_rate_in_milliseconds

\* C12 witness: the largest accepted interval, 2^64 - 1, is what the sampler
\* sleeps after its second Update.
C12_Witness ==
    /\ update_rate_in_milliseconds = U128From(U64Max)
    /\ sampler_pc = "sleep"
    /\ emitted = 2
    /\ sleep_ms = U64Max

\* C16 as claimed: whenever the sampler is in its warm-up sleep, that sleep
\* is strictly shorter than the configured interval.
C16_WarmupStrictlyShorter ==
    (first_run /\ sampler_pc = "sleep") =>
        Less(sleep_ms, AsU64(update_rate_in_milliseconds))

\* C13: a receive that returns with no event (the channel is empty) changes
\* neither the application state nor any display buffer nor what has been
\* handled, and goes on to the renderer; the buffers stay as they are until
\* that render, which is invoked exactly once in the iteration. With an
\* empty channel the receive can always return.
C13_TimeoutRendersUnchanged ==
    /\ [][(main_pc = "recv" /\ chan = <<>> /\ mainVars' # mainVars) =>
            /\ main_pc' = "draw"
            /\ iter_kind' = "timeout"
            /\ app' = app
            /\ canvas_data' = canvas_data
            /\ handled' = handled]_vars
    /\ [][(iter_kind = "timeout" /\ main_pc = "draw") =>
            (app' = app /\ canvas_data' = canvas_data)]_vars
    /\ [](iter_kind = "timeout" =>
            \/ main_pc = "draw" /\ iter_renders = 0
            \/ main_pc \in {"recv", "return_err", "done_err"} /\ iter_renders = 1)
    /\ []((main_pc = "recv" /\ chan = <<>>) => ENABLED Timeout)

\* C13 witness: after an Update had been handled, a tick with no event was
\* rendered once, with the buffers computed from that Update.
C13_Witness ==
    /\ iter_kind = "timeout"
    /\ main_pc = "recv"
    /\ iter_renders = 1
    /\ render_result = "ok"
    /\ app.data.id >= 1
    /\ canvas_data.cpu_data.src = app.data.id

\* C14: the step that handles Update(d) leaves the application holding
\* exactly d with its process list sorted by the sort state in force (nothing
\* of the snapshot held before), assigns every display buffer from it, and
\* leaves sort column, sort direction, position, resort flag and quit flag
\* as they were.
C14_UpdateReplacesWholesale ==
    [][(CanRecv("Update") /\ handled' # handled) =>
        LET d == Received.data IN
        /\ app'.data = [id |-> d.id,
                        procs |-> sort_processes(d.procs,
                                      app.process_sorting_type,
                                      app.process_sorting_reverse)]
        /\ \A f \in CanvasFields : canvas_data'[f] = Convert(f, app'.data)
        /\ rebuilt' = CanvasFields
        /\ app'.process_sorting_type = app.process_sorting_type
        /\ app'.process_sorting_reverse = app.process_sorting_reverse
        /\ app'.position = app.position
        /\ app'.to_be_resorted = app.to_be_resorted
        /\ app'.should_quit = app.should_quit]_vars

\* C14 witness: the second snapshot was handled after a key had changed the
\* sort column, replacing the first one.
C14_Witness ==
    /\ Len(handled) >= 3
    /\ Last(handled).kind = "Update"
    /\ Last(handled).data.id = 2
    /\ handled[1].kind = "Update"
    /\ handled[1].data.id = 1
    /\ app.data.id = 2
    /\ app.process_sorting_type = "PID"
    /\ main_pc = "draw"

\* C15: the step that handles a MouseInput event decrements the position
\* on a wheel-up press and increments it on a wheel-down press, changing
\* nothing else of the application; on any other mouse action the
\* application is unchanged; no display buffer is reassigned, and neither
\* the resort flag nor the quit flag nor the snapshot changes.
C15_MouseWheelOnly ==
    [][(CanRecv("MouseInput") /\ handled' # handled) =>
        LET m == Received.arg IN
        /\ m = "WheelUp" =>
              app' = [app EXCEPT !.position = app.position - 1]
        /\ m = "WheelDown" =>
              app' = [app EXCEPT !.position = app.position + 1]
        /\ m \notin {"WheelUp", "WheelDown"} => app' = app
        /\ canvas_data' = canvas_data
        /\ rebuilt' = {}
        /\ app'.to_be_resorted = app.to_be_resorted
        /\ app'.should_quit = app.should_quit
        /\ app'.data = app.data]_vars

\* C15 witness: a wheel-down and then a wheel-up press were handled while a
\* snapshot was held, and the position is back where it started.
C15_Witness ==
    /\ Len(handled) >= 3
    /\ \E i \in 1..Len(handled) : \E j \in (i + 1)..Len(handled) :
          /\ handled[i] = MouseInput("WheelDown")
          /\ handled[j] = MouseInput("WheelUp")
    /\ app.position = 0
    /\ app.data.id >= 1
    /\ main_pc = "draw"

\* C17: the sampler is in FirstSample (first_run) exactly until it wakes
\* from the sleep that follows its first Update, and never goes back; that
\* transition is taken out of a 250 ms sleep. Every turn acquires, then
\* emits the Update carrying what was acquired, then sleeps: one emission per
\* acquisition, each followed by a sleep, of 250 ms after the first Update
\* and of the configured interval after every later one.
C17_SamplerTwoStates ==
    /\ [](first_run <=> (emitted = 0 \/ (emitted = 1 /\ sampler_pc = "sleep")))
    /\ [][~first_run => ~first_run']_vars
    /\ [][(first_run /\ ~first_run') =>
            /\ sampler_pc = "sleep"
            /\ sampler_pc' = "run"
            /\ emitted = 1
            /\ sleep_ms = from_millis(FirstRunSleep)]_vars
    /\ [][emitted' # emitted =>
            /\ sampler_pc = "run"
            /\ samples' = samples + 1
            /\ emitted' = emitted + 1
            /\ Last(sent') = Update(data_state')
            /\ sampler_pc' = "sleep"]_vars
    /\ [](sampler_pc \in {"run", "sleep"} => emitted = samples)
    /\ [](sampler_pc = "sleep" =>
            sleep_ms = IF emitted = 1
                       THEN from_millis(FirstRunSleep)
                       ELSE AsU64(update_rate_in_milliseconds))

\* C17 witness: with an interval of 1000 ms the sampler is Steady and in
\* the sleep after its second Update, which is 1000 ms, the one before
\* having been 250 ms.
C17_Witness ==
    /\ update_rate_in_milliseconds = U128(1000)
    /\ ~first_run
    /\ emitted = 2
    /\ sampler_pc = "sleep"
    /\ sleep_ms = from_millis(1000)
    /\ gap = from_millis(FirstRunSleep)

\* C18 as claimed: whenever the coordinator has terminated, by quit or by
\* render error, mouse mode is disabled.
C18_MouseModeOffAtExit ==
    main_pc \in {"done_ok", "done_err"} => ~mouse_mode

\* the coordinator has left its loop: by quit, or by a render error
Terminated ==
    main_pc \in {"exit", "return_ok", "return_err", "done_ok", "done_err"}

\* C19: under fair scheduling, the n-th event enqueued is eventually the
\* n-th event handled, unless the coordinator leaves its loop first (a quit
\* event handled, or the renderer failed). Nothing blocks: a producer at its
\* send can always take the step, and the coordinator at its receive can
\* always take one, by an event or by the timeout.
C19_EveryEventHandled ==
    /\ \A n \in 1..(MaxInputs + MaxSamples) :
          (Len(sent) >= n) ~> (Len(handled) >= n \/ Terminated)
    /\ [](main_pc = "recv" =>
            ENABLED (HandleKey \/ HandleMouse \/ HandleUpdate \/ Timeout))
    /\ []((sampler_pc = "run" /\ samples < MaxSamples) => ENABLED SamplerSample)
    /\ []((input_pc = "read" /\ Len(raw_signals) < MaxInputs) => ENABLED InputRead)

\* C19 witness: three or more events were enqueued by both producers and all
\* of them have been handled, the coordinator being back at its receive.
C19_Witness ==
    /\ Len(sent) >= 3
    /\ sent = handled
    /\ chan = <<>>
    /\ main_pc = "recv"
    /\ \E i \in 1..Len(sent) : sent[i].kind = "Update"
    /\ \E i \in 1..Len(sent) : sent[i].kind # "Update"

\* the number of the snapshot carried by the last Update among the first n
\* handled events, 0 (no snapshot) if there is none
RECURSIVE LastUpdateId(_, _)
LastUpdateId(h, n) ==
    IF n = 0 THEN 0
    ELSE IF h[n].kind = "Update" THEN h[n].data.id
    ELSE LastUpdateId(h, n - 1)

\* s and t list the same processes, in whatever order
SameProcesses(s, t) ==
    /\ Len(s) = Len(t)
    /\ \A p \in Pids :
          Cardinality({i \in 1..Len(s) : s[i] = p})
            = Cardinality({i \in 1..Len(t) : t[i] = p})

\* C20: the snapshot held by the coordinator is always the one of the most
\* recently handled Update, its number never decreases, and a step that
\* handles no Update (key, mouse, timeout, render, or a step of a producer)
\* leaves the snapshot the same, changing at most the order of its process
\* list.
C20_SnapshotNeverRegresses ==
    /\ [](app.data.id = LastUpdateId(handled, Len(handled)))
    /\ [][app'.data.id >= app.data.id]_vars
    /\ [][(handled' = handled \/ Last(handled').kind # "Update") =>
            /\ app'.data.id = app.data.id
            /\ SameProcesses(app'.data.procs, app.data.procs)]_vars

\* C20 witness: snapshots 1 and 2 were handled in that order, then a key
\* that re-sorts; the coordinator holds snapshot 2 in another order than
\* the one it was stored in.
C20_Witness ==
    /\ Len(handled) = 3
    /\ handled[1].kind = "Update" /\ handled[1].data.id = 1
    /\ handled[2].kind = "Update" /\ handled[2].data.id = 2
    /\ IsSortEvent(handled[3])
    /\ app.data.id = 2
    /\ app.data.procs # sort_processes(handled[2].data.procs, "CPU", TRUE)
    /\ main_pc = "draw"

====
